---- MODULE Spec2Model ----
(***************************************************************************)
(* Model of qos_bidirectional_periodic.py: four iperf3 UDP stream threads  *)
(* (run_udp_test_continuous) that parse their child's interval lines into  *)
(* the shared dictionary `results`, and main(), which starts the threads,  *)
(* prints a periodic report while any thread is alive, joins the threads   *)
(* and prints the final results.                                           *)
(*                                                                         *)
(* Text is modelled as sequences of one-character strings.  A Python dict  *)
(* is a function whose DOMAIN is the set of keys present.  A float is the  *)
(* decimal m / 10^e with m not divisible by 10 unless e = 0.               *)
(***************************************************************************)
EXTENDS Integers, Sequences, FiniteSets, TLC

\* ------------------------------------------------------------------------
\* Text: character classes of the regular expression, str.strip()
\* ------------------------------------------------------------------------

Digits == <<"0","1","2","3","4","5","6","7","8","9">>

IsDigit(c) == \E d \in 1..10 : Digits[d] = c

IsSpace(c) == c \in {" ", "\t", "\n", "\r"}

\* Membership of character c in the class named cls: \d, \s, \S, [\d\.]
InClass(cls, c) ==
    CASE cls = "d"  -> IsDigit(c)
      [] cls = "s"  -> IsSpace(c)
      [] cls = "S"  -> ~IsSpace(c)
      [] cls = "d." -> IsDigit(c) \/ c = "."

\* First index j >= i at which s leaves the class (Len(s)+1 at the end):
\* what a greedy repetition of the class consumes from position i.
SpanEnd(s, i, cls) ==
    CHOOSE j \in i..(Len(s) + 1) :
        /\ \A k \in i..(j - 1) : InClass(cls, s[k])
        /\ (j = Len(s) + 1 \/ ~InClass(cls, s[j]))

\* line.strip(): drop leading and trailing whitespace
Strip(s) ==
    LET keep == {k \in 1..Len(s) : ~IsSpace(s[k])}
    IN  IF keep = {} THEN << >>
        ELSE LET lo == CHOOSE k \in keep : \A x \in keep : k <= x
                 hi == CHOOSE k \in keep : \A x \in keep : k >= x
             IN  SubSeq(s, lo, hi)

\* ------------------------------------------------------------------------
\* interval_regex, as the sequence of its elements.  Every repetition is
\* followed by an element that starts outside the repeated class, so the
\* greedy match never has to backtrack and longest-run matching is exact.
\* re.match anchors at the start only: text after the last element is
\* allowed.
\* ------------------------------------------------------------------------

Lit(chars)     == [kind |-> "lit", chars |-> chars]
Rep(cls, min)  == [kind |-> "rep", cls |-> cls, min |-> min]
Open(name)     == [kind |-> "open", name |-> name]
Close(name)    == [kind |-> "close", name |-> name]

GroupNames == {"interval", "transfer", "bandwidth", "jitter", "lost", "total", "loss_percent"}

interval_regex ==
    << Lit(<<"[">>), Rep("s", 0), Rep("d", 1), Lit(<<"]">>), Rep("s", 1),
       Open("interval"), Rep("d.", 1), Lit(<<"-">>), Rep("d.", 1), Close("interval"),
       Rep("s", 1), Lit(<<"s","e","c">>), Rep("s", 1),
       Open("transfer"), Rep("d.", 1), Rep("s", 1), Rep("S", 1), Close("transfer"),
       Rep("s", 1),
       Open("bandwidth"), Rep("d.", 1), Rep("s", 1), Rep("S", 1), Close("bandwidth"),
       Rep("s", 1),
       Open("jitter"), Rep("d.", 1), Close("jitter"),
       Rep("s", 1), Lit(<<"m","s">>), Rep("s", 1),
       Open("lost"), Rep("d", 1), Close("lost"), Lit(<<"/">>),
       Open("total"), Rep("d", 1), Close("total"), Rep("s", 1), Lit(<<"(">>),
       Open("loss_percent"), Rep("d", 1), Close("loss_percent"),
       Lit(<<"%">>), Lit(<<")">>) >>

NoMatch == [ok |-> FALSE]

RECURSIVE MatchFrom(_, _, _, _)
\* Match elements k.. of interval_regex against s from position i; g maps
\* each group name to <<first, last+1>> of the text it captured so far.
MatchFrom(s, i, k, g) ==
    IF k > Len(interval_regex) THEN [ok |-> TRUE, groups |-> g]
    ELSE LET t == interval_regex[k] IN
         CASE t.kind = "lit" ->
                 IF /\ i + Len(t.chars) - 1 <= Len(s)
                    /\ SubSeq(s, i, i + Len(t.chars) - 1) = t.chars
                 THEN MatchFrom(s, i + Len(t.chars), k + 1, g)
                 ELSE NoMatch
           [] t.kind = "rep" ->
                 LET j == SpanEnd(s, i, t.cls) IN
                 IF j - i >= t.min THEN MatchFrom(s, j, k + 1, g) ELSE NoMatch
           [] t.kind = "open" ->
                 MatchFrom(s, i, k + 1, [g EXCEPT ![t.name] = <<i, i>>])
           [] t.kind = "close" ->
                 MatchFrom(s, i, k + 1, [g EXCEPT ![t.name] = <<g[t.name][1], i>>])

\* interval_regex.match(s)
Match(s) == MatchFrom(s, 1, 1, [n \in GroupNames |-> <<0, 0>>])

\* m.group(name)
Group(s, m, name) == SubSeq(s, m.groups[name][1], m.groups[name][2] - 1)

\* ------------------------------------------------------------------------
\* Conversions: int(), float(), and the str() that an f-string applies
\* ------------------------------------------------------------------------

DigitVal(c) == (CHOOSE d \in 1..10 : Digits[d] = c) - 1

RECURSIVE ParseInt(_)
\* int(text) for a text of decimal digits
ParseInt(str) ==
    IF str = << >> THEN 0
    ELSE 10 * ParseInt(SubSeq(str, 1, Len(str) - 1)) + DigitVal(str[Len(str)])

RECURSIVE Pow10(_)
Pow10(e) == IF e = 0 THEN 1 ELSE 10 * Pow10(e - 1)

RECURSIVE Normalize(_, _)
Normalize(m, e) ==
    IF e > 0 /\ m % 10 = 0 THEN Normalize(m \div 10, e - 1) ELSE [m |-> m, e |-> e]

\* float(text) raises ValueError for a text of digits and dots unless it
\* has at most one dot and at least one digit.
FloatOk(str) ==
    /\ Cardinality({k \in 1..Len(str) : str[k] = "."}) <= 1
    /\ \E k \in 1..Len(str) : IsDigit(str[k])

\* float(text), for FloatOk(text)
ParseFloat(str) ==
    LET dots == {k \in 1..Len(str) : str[k] = "."}
        dot  == IF dots = {} THEN Len(str) + 1 ELSE CHOOSE k \in dots : TRUE
        ip   == SubSeq(str, 1, dot - 1)
        fp   == SubSeq(str, dot + 1, Len(str))
    IN  Normalize(ParseInt(ip \o fp), Len(fp))

RECURSIVE FormatInt(_)
\* str(n) for an int n >= 0
FormatInt(n) ==
    IF n < 10 THEN <<Digits[n + 1]>>
    ELSE FormatInt(n \div 10) \o <<Digits[(n % 10) + 1]>>

RECURSIVE PadLeft(_, _)
PadLeft(str, w) == IF Len(str) >= w THEN str ELSE PadLeft(<<"0">> \o str, w)

\* str(x) for a float x in the fixed-point range of repr (1e-4 <= x < 1e16
\* or x = 0): integer part, a dot, and the shortest fraction, "0" when the
\* value is integral.
FormatFloat(x) ==
    LET p == Pow10(x.e)
    IN  FormatInt(x.m \div p) \o <<".">> \o
        (IF x.e = 0 THEN <<"0">> ELSE PadLeft(FormatInt(x.m % p), x.e))

\* ------------------------------------------------------------------------
\* The lines a child may write to its pipe (each ends with a newline)
\* ------------------------------------------------------------------------

\* The example of the source comment: jitter 0.089, 0/555 (0%)
LineM1 == <<"["," "," ","5","]"," "," "," ","0",".","0","0","-","1","0",".","0","0"," ","s","e","c"," "," ","7",".","6","5"," ","M","B","y","t","e","s"," "," ","6",".","4","1"," ","M","b","i","t","s","/","s","e","c"," "," ","0",".","0","8","9"," ","m","s"," "," ","0","/","5","5","5"," ","(","0","%",")","\n">>

\* A second interval, matching the grammar with lost > total and loss > 100
LineM2 == <<"["," "," ","5","]"," "," ","1","0",".","0","0","-","2","0",".","0","0"," ","s","e","c"," "," ","7",".","6","5"," ","M","B","y","t","e","s"," "," ","6",".","4","1"," ","M","b","i","t","s","/","s","e","c"," "," ","0",".","1","2","0"," ","m","s"," "," ","7","/","5"," ","(","1","4","0","%",")","\n">>

\* Matches the grammar, but float("1.2.3") raises ValueError
LineBadJitter == <<"["," "," ","5","]"," "," ","2","0",".","0","0","-","3","0",".","0","0"," ","s","e","c"," "," ","7",".","6","5"," ","M","B","y","t","e","s"," "," ","6",".","4","1"," ","M","b","i","t","s","/","s","e","c"," "," ","1",".","2",".","3"," ","m","s"," "," ","3","/","6","0","0"," ","(","0","%",")","\n">>

\* Lines outside the grammar: a banner, an empty line
LineBanner == <<"C","o","n","n","e","c","t","i","n","g"," ","t","o"," ","h","o","s","t","\n">>

LineBlank == <<"\n">>

Lines == {LineM1, LineM2, LineBadJitter, LineBanner, LineBlank}

\* ------------------------------------------------------------------------
\* Dictionaries
\* ------------------------------------------------------------------------

EmptyDict == [k \in {} |-> TRUE]

\* bool(d) of a dict
Truthy(d) == DOMAIN d # {}

\* d[key] = value, in place
SetItem(d, key, value) ==
    [k \in (DOMAIN d) \cup {key} |-> IF k = key THEN value ELSE d[k]]

MetricKeys == {"jitter", "lost", "total", "loss_percent", "interval"}

\* ------------------------------------------------------------------------
\* The body of the read loop for one line: strip, match, convert, and the
\* dict that line 69 would store.  kind is "nomatch" when the regular
\* expression does not match, "error" when a conversion raises (the
\* exception is caught and nothing was assigned), "ok" otherwise.
\* ------------------------------------------------------------------------

ParseLine(raw) ==
    LET line == Strip(raw)
        m    == Match(line)
    IN  IF ~m.ok THEN [kind |-> "nomatch"]
        ELSE IF ~FloatOk(Group(line, m, "jitter")) THEN [kind |-> "error"]
        ELSE [kind |-> "ok",
              entry |-> [jitter       |-> ParseFloat(Group(line, m, "jitter")),
                         lost         |-> ParseInt(Group(line, m, "lost")),
                         total        |-> ParseInt(Group(line, m, "total")),
                         loss_percent |-> ParseInt(Group(line, m, "loss_percent")),
                         interval     |-> Group(line, m, "interval")]]

\* ParseLine of every line of Lines, computed once
Parsed == [l \in Lines |-> ParseLine(l)]

\* ------------------------------------------------------------------------
\* Rendering of one report line (the text after "<Title>: ")
\* ------------------------------------------------------------------------

NA == <<"N","/","A">>
TxtInterval == <<"I","n","t","e","r","v","a","l"," ">>
TxtJitter == <<" ","s","e","c",","," ","J","i","t","t","e","r",":"," ">>
TxtLost == <<" ","m","s",","," ","L","o","s","t",":"," ">>
TxtSlash == <<" ","/"," ">>
TxtLoss == <<","," ","L","o","s","s","%",":"," ">>
TxtPct == <<"%">>
NoDataYet == <<"N","o"," ","d","a","t","a"," ","y","e","t",".">>
NoDataAvailable == <<"N","o"," ","d","a","t","a"," ","a","v","a","i","l","a","b","l","e",".">>

\* The f-string of lines 146-147 / 164-165 over the five stats.get results
StatsText(interval, jitter, lost, total, loss_percent) ==
    TxtInterval \o interval \o TxtJitter \o jitter \o TxtLost \o lost
        \o TxtSlash \o total \o TxtLoss \o loss_percent \o TxtPct

\* The line printed for a fetched stats dict: `if stats:` and the gets
RenderLine(stats, nodata) ==
    IF Truthy(stats)
    THEN StatsText(
            IF "interval" \in DOMAIN stats THEN stats["interval"] ELSE << >>,
            IF "jitter" \in DOMAIN stats THEN FormatFloat(stats["jitter"]) ELSE NA,
            IF "lost" \in DOMAIN stats THEN FormatInt(stats["lost"]) ELSE NA,
            IF "total" \in DOMAIN stats THEN FormatInt(stats["total"]) ELSE NA,
            IF "loss_percent" \in DOMAIN stats THEN FormatInt(stats["loss_percent"]) ELSE NA)
    ELSE nodata

\* ------------------------------------------------------------------------
\* State
\* ------------------------------------------------------------------------

\* The threads list of main(), and the report order of lines 138 and 156
Order == <<"voice_forward", "voice_reverse", "bg_forward", "bg_reverse">>

Tests == {Order[i] : i \in 1..Len(Order)}

VARIABLES
    results,    \* the shared dict: test name -> dict of the latest stats
    tpc,        \* per thread: position in run_udp_test_continuous
    child,      \* per test: state of its iperf3 child process
    lastGood,   \* per test: what the last line that parsed held (history)
    skipped,    \* per thread: the line just read was dropped (history)
    mpc,        \* position of main()
    idx,        \* index into Order of main()'s current loop
    stats,      \* main()'s local: the dict fetched by results.get
    fresh,      \* stats is still the very object stored in results
    finals      \* how often the final results header was printed

vars == <<results, tpc, child, lastGood, skipped, mpc, idx, stats, fresh, finals>>

threadVars == <<results, tpc, child, lastGood, skipped>>

Init ==
    /\ results  = [t \in Tests |-> EmptyDict]
    /\ tpc      = [t \in Tests |-> "new"]
    /\ child    = [t \in Tests |-> "none"]
    /\ lastGood = [t \in Tests |-> EmptyDict]
    /\ skipped  = [t \in Tests |-> FALSE]
    /\ mpc      = "start"
    /\ idx      = 1
    /\ stats    = EmptyDict
    /\ fresh    = FALSE
    /\ finals   = 0

\* thread.is_alive(): started and not yet returned
IsAlive(t) == tpc[t] \notin {"new", "ret"}

\* main() holds in stats the dict object that results[t] refers to
Holds(t) == mpc \in {"render", "frender"} /\ Order[idx] = t /\ fresh

\* ------------------------------------------------------------------------
\* run_udp_test_continuous, one thread per test name
\* ------------------------------------------------------------------------

\* subprocess.Popen succeeds: the child runs, the thread enters the loop
PopenOk(t) ==
    /\ tpc[t] = "popen"
    /\ tpc'   = [tpc EXCEPT ![t] = "read"]
    /\ child' = [child EXCEPT ![t] = "running"]
    /\ UNCHANGED <<results, lastGood, skipped, mpc, idx, stats, fresh, finals>>

\* Variant of PopenFail: the except branch also marks the stream done
PopenFail_done(t) ==
    /\ tpc[t] = "popen"
    /\ tpc'   = [tpc EXCEPT ![t] = "ret"]
    /\ child' = [child EXCEPT ![t] = "failed"]
    /\ results' = [results EXCEPT ![t] = SetItem(@, "done", TRUE)]
    /\ UNCHANGED <<lastGood, skipped, mpc, idx, stats, fresh, finals>>

\* subprocess.Popen raises: the thread prints the failure and returns
PopenFail(t) ==
    /\ tpc[t] = "popen"
    /\ tpc'   = [tpc EXCEPT ![t] = "ret"]
    /\ child' = [child EXCEPT ![t] = "failed"]
    /\ UNCHANGED <<results, lastGood, skipped, mpc, idx, stats, fresh, finals>>

\* Variant of ReadLine: the key is a literal, not the thread's test_name
ReadLine_sharedKey(t, raw) ==
    /\ tpc[t] = "read"
    /\ child[t] = "running"
    /\ LET p == Parsed[raw] IN
       IF p.kind = "ok"
       THEN /\ results'  = [results EXCEPT ![Order[1]] = p.entry]
            /\ lastGood' = [lastGood EXCEPT ![t] = p.entry]
            /\ skipped'  = [skipped EXCEPT ![t] = FALSE]
            /\ fresh'    = (fresh /\ ~Holds(Order[1]))
       ELSE /\ skipped'  = [skipped EXCEPT ![t] = TRUE]
            /\ UNCHANGED <<results, lastGood, fresh>>
    /\ UNCHANGED <<tpc, child, mpc, idx, stats, finals>>

\* Variant of ReadLine: the lost and total groups end up exchanged
ReadLine_swapped(t, raw) ==
    /\ tpc[t] = "read"
    /\ child[t] = "running"
    /\ LET p == Parsed[raw] IN
       IF p.kind = "ok"
       THEN /\ results'  = [results EXCEPT ![t] =
                               [p.entry EXCEPT !["lost"]  = p.entry["total"],
                                               !["total"] = p.entry["lost"]]]
            /\ lastGood' = [lastGood EXCEPT ![t] = p.entry]
            /\ skipped'  = [skipped EXCEPT ![t] = FALSE]
            /\ fresh'    = (fresh /\ ~Holds(t))
       ELSE /\ skipped'  = [skipped EXCEPT ![t] = TRUE]
            /\ UNCHANGED <<results, lastGood, fresh>>
    /\ UNCHANGED <<tpc, child, mpc, idx, stats, finals>>

\* Variant of ReadLine: the stored dict has no "interval" field
ReadLine_noInterval(t, raw) ==
    /\ tpc[t] = "read"
    /\ child[t] = "running"
    /\ LET p == Parsed[raw]
           e == [k \in MetricKeys \ {"interval"} |-> p.entry[k]] IN
       IF p.kind = "ok"
       THEN /\ results'  = [results EXCEPT ![t] = e]
            /\ lastGood' = [lastGood EXCEPT ![t] = e]
            /\ skipped'  = [skipped EXCEPT ![t] = FALSE]
            /\ fresh'    = (fresh /\ ~Holds(t))
       ELSE /\ skipped'  = [skipped EXCEPT ![t] = TRUE]
            /\ UNCHANGED <<results, lastGood, fresh>>
    /\ UNCHANGED <<tpc, child, mpc, idx, stats, finals>>

\* Variant of ReadLine: an existing dict is updated in place, and only its
\* jitter has been written so far
ReadLine_inPlace(t, raw) ==
    /\ tpc[t] = "read"
    /\ child[t] = "running"
    /\ LET p == Parsed[raw] IN
       IF p.kind = "ok"
       THEN /\ results'  = [results EXCEPT ![t] =
                               IF Truthy(@) THEN SetItem(@, "jitter", p.entry["jitter"])
                                            ELSE p.entry]
            /\ stats'    = IF Holds(t) /\ Truthy(stats)
                           THEN SetItem(stats, "jitter", p.entry["jitter"]) ELSE stats
            /\ lastGood' = [lastGood EXCEPT ![t] = p.entry]
            /\ skipped'  = [skipped EXCEPT ![t] = FALSE]
            /\ fresh'    = (fresh /\ (~Holds(t) \/ Truthy(results[t])))
       ELSE /\ skipped'  = [skipped EXCEPT ![t] = TRUE]
            /\ UNCHANGED <<results, lastGood, fresh, stats>>
    /\ UNCHANGED <<tpc, child, mpc, idx, finals>>

\* Variant of ReadLine: results.setdefault, the first parsed line is kept
ReadLine_firstWins(t, raw) ==
    /\ tpc[t] = "read"
    /\ child[t] = "running"
    /\ LET p == Parsed[raw] IN
       IF p.kind = "ok"
       THEN /\ results'  = [results EXCEPT ![t] = IF Truthy(@) THEN @ ELSE p.entry]
            /\ lastGood' = [lastGood EXCEPT ![t] = p.entry]
            /\ skipped'  = [skipped EXCEPT ![t] = FALSE]
            /\ fresh'    = (fresh /\ (~Holds(t) \/ Truthy(results[t])))
       ELSE /\ skipped'  = [skipped EXCEPT ![t] = TRUE]
            /\ UNCHANGED <<results, lastGood, fresh>>
    /\ UNCHANGED <<tpc, child, mpc, idx, stats, finals>>

\* Variant of ReadLine: no try/except, a failed conversion ends the thread
ReadLine_raise(t, raw) ==
    /\ tpc[t] = "read"
    /\ child[t] = "running"
    /\ LET p == Parsed[raw] IN
       IF p.kind = "ok"
       THEN /\ results'  = [results EXCEPT ![t] = p.entry]
            /\ lastGood' = [lastGood EXCEPT ![t] = p.entry]
            /\ skipped'  = [skipped EXCEPT ![t] = FALSE]
            /\ fresh'    = (fresh /\ ~Holds(t))
            /\ tpc'      = tpc
       ELSE /\ skipped'  = [skipped EXCEPT ![t] = TRUE]
            /\ tpc'      = [tpc EXCEPT ![t] = IF p.kind = "error" THEN "ret" ELSE @]
            /\ UNCHANGED <<results, lastGood, fresh>>
    /\ UNCHANGED <<child, mpc, idx, stats, finals>>

\* One iteration of the read loop on the line raw the child wrote: a line
\* that parses replaces results[t] by a new dict (the object main() may
\* still hold is then no longer the stored one); any other line is dropped.
ReadLine(t, raw) ==
    /\ tpc[t] = "read"
    /\ child[t] = "running"
    /\ LET p == Parsed[raw] IN
       IF p.kind = "ok"
       THEN /\ results'  = [results EXCEPT ![t] = p.entry]
            /\ lastGood' = [lastGood EXCEPT ![t] = p.entry]
            /\ skipped'  = [skipped EXCEPT ![t] = FALSE]
            /\ fresh'    = (fresh /\ ~Holds(t))
       ELSE /\ skipped'  = [skipped EXCEPT ![t] = TRUE]
            /\ UNCHANGED <<results, lastGood, fresh>>
    /\ UNCHANGED <<tpc, child, mpc, idx, stats, finals>>

\* Variant of MarkDone: the thread leaves the read loop only once a line
\* was parsed
MarkDone_ifData(t) ==
    /\ tpc[t] = "read"
    /\ child[t] = "running"
    /\ Truthy(results[t])
    /\ child' = [child EXCEPT ![t] = "exited"]
    /\ results' = [results EXCEPT ![t] = SetItem(@, "done", TRUE)]
    /\ tpc' = [tpc EXCEPT ![t] = "ret"]
    /\ skipped' = [skipped EXCEPT ![t] = FALSE]
    /\ stats' = IF Holds(t) THEN SetItem(stats, "done", TRUE) ELSE stats
    /\ UNCHANGED <<lastGood, mpc, idx, fresh, finals>>

\* Variant of MarkDone: the flag is set inside the loop, which goes on
MarkDone_inLoop(t) ==
    /\ tpc[t] = "read"
    /\ child[t] = "running"
    /\ results' = [results EXCEPT ![t] = SetItem(@, "done", TRUE)]
    /\ stats' = IF Holds(t) THEN SetItem(stats, "done", TRUE) ELSE stats
    /\ UNCHANGED <<tpc, child, lastGood, skipped, mpc, idx, fresh, finals>>

\* Variant of MarkDone: no process.wait(), the child may still be running
MarkDone_noWait(t) ==
    /\ tpc[t] = "read"
    /\ child[t] = "running"
    /\ results' = [results EXCEPT ![t] = SetItem(@, "done", TRUE)]
    /\ tpc' = [tpc EXCEPT ![t] = "ret"]
    /\ skipped' = [skipped EXCEPT ![t] = FALSE]
    /\ stats' = IF Holds(t) THEN SetItem(stats, "done", TRUE) ELSE stats
    /\ UNCHANGED <<child, lastGood, mpc, idx, fresh, finals>>

\* Variant of MarkDone: results[test_name] = {"done": True}, a new dict
MarkDone_replace(t) ==
    /\ tpc[t] = "read"
    /\ child[t] = "running"
    /\ child' = [child EXCEPT ![t] = "exited"]
    /\ results' = [results EXCEPT ![t] = SetItem(EmptyDict, "done", TRUE)]
    /\ tpc' = [tpc EXCEPT ![t] = "ret"]
    /\ skipped' = [skipped EXCEPT ![t] = FALSE]
    /\ fresh' = (fresh /\ ~Holds(t))
    /\ UNCHANGED <<lastGood, mpc, idx, stats, finals>>

\* readline returns "" (the child has closed its output) and the for loop
\* ends; process.wait() returns (the child has exited, with whatever
\* status); results[test_name]["done"] = True on the stored dict object,
\* and the thread returns.  Only the last of these touches shared state.
\* A dict main() fetched and still holds is that stored object.
MarkDone(t) ==
    /\ tpc[t] = "read"
    /\ child[t] = "running"
    /\ child' = [child EXCEPT ![t] = "exited"]
    /\ results' = [results EXCEPT ![t] = SetItem(@, "done", TRUE)]
    /\ tpc' = [tpc EXCEPT ![t] = "ret"]
    /\ skipped' = [skipped EXCEPT ![t] = FALSE]
    /\ stats' = IF Holds(t) THEN SetItem(stats, "done", TRUE) ELSE stats
    /\ UNCHANGED <<lastGood, mpc, idx, fresh, finals>>

\* ------------------------------------------------------------------------
\* main()
\* ------------------------------------------------------------------------

\* for thread in threads: thread.start()
StartThread ==
    /\ mpc = "start"
    /\ tpc' = [tpc EXCEPT ![Order[idx]] = "popen"]
    /\ IF idx < Len(Order)
       THEN idx' = idx + 1 /\ mpc' = mpc
       ELSE idx' = 1 /\ mpc' = "loop"
    /\ UNCHANGED <<results, child, lastGood, skipped, stats, fresh, finals>>

\* while any(thread.is_alive() ...): true, print the report header.  The
\* four is_alive() reads are taken as one step: once all threads are
\* started a thread only ever goes from alive to not alive, so any() is
\* true iff some thread was alive at one of the reads, false iff none is.
LoopEnter ==
    /\ mpc = "loop"
    /\ \E t \in Tests : IsAlive(t)
    /\ mpc' = "get"
    /\ idx' = 1
    /\ UNCHANGED <<threadVars, stats, fresh, finals>>

\* The completion flag of a stream, as a reader of results sees it
Done(t) == "done" \in DOMAIN results[t] /\ results[t]["done"]

\* Variant of LoopExit: all() for any(), the loop ends at the first return
LoopExit_allAlive ==
    /\ mpc = "loop"
    /\ ~ \A t \in Tests : IsAlive(t)
    /\ mpc' = "join"
    /\ UNCHANGED <<threadVars, idx, stats, fresh, finals>>

\* Variant of LoopExit: the loop ends when every stream is marked done
LoopExit_allDone ==
    /\ mpc = "loop"
    /\ \A t \in Tests : Done(t)
    /\ mpc' = "join"
    /\ UNCHANGED <<threadVars, idx, stats, fresh, finals>>

\* while any(thread.is_alive() ...): false, go on to the joins
LoopExit ==
    /\ mpc = "loop"
    /\ ~ \E t \in Tests : IsAlive(t)
    /\ mpc' = "join"
    /\ UNCHANGED <<threadVars, idx, stats, fresh, finals>>

\* Variant of GetStats: the key is not the loop's test_name
GetStats_firstKey ==
    /\ mpc \in {"get", "fget"}
    /\ stats' = results[Order[1]]
    /\ fresh' = (idx = 1)
    /\ mpc' = IF mpc = "get" THEN "render" ELSE "frender"
    /\ UNCHANGED <<threadVars, idx, finals>>

\* stats = results.get(test_name, {}) in the periodic or the final report
GetStats ==
    /\ mpc \in {"get", "fget"}
    /\ stats' = results[Order[idx]]
    /\ fresh' = TRUE
    /\ mpc' = IF mpc = "get" THEN "render" ELSE "frender"
    /\ UNCHANGED <<threadVars, idx, finals>>

\* The line that main() prints for the dict it holds: "No data yet." in a
\* periodic report, "No data available." in the final results
Printed ==
    RenderLine(stats, IF mpc = "render" THEN NoDataYet ELSE NoDataAvailable)

\* `if stats:`, the five stats.get and the print of one report line; after
\* the last line of a periodic report, time.sleep(10) and back to the test
Render ==
    /\ mpc \in {"render", "frender"}
    /\ stats' = EmptyDict
    /\ fresh' = FALSE
    /\ IF idx < Len(Order)
       THEN idx' = idx + 1 /\ mpc' = (IF mpc = "render" THEN "get" ELSE "fget")
       ELSE idx' = 1 /\ mpc' = (IF mpc = "render" THEN "loop" ELSE "exit")
    /\ UNCHANGED <<threadVars, finals>>

\* for thread in threads: thread.join(), then print the final header
JoinAll ==
    /\ mpc = "join"
    /\ \A t \in Tests : ~IsAlive(t)
    /\ mpc' = "fget"
    /\ idx' = 1
    /\ finals' = finals + 1
    /\ UNCHANGED <<threadVars, stats, fresh>>

Next ==
    \/ \E t \in Tests : PopenOk(t)
    \/ \E t \in Tests : PopenFail(t)
    \/ \E t \in Tests : \E raw \in Lines : ReadLine(t, raw)
    \/ \E t \in Tests : MarkDone(t)
    \/ StartThread
    \/ LoopEnter
    \/ LoopExit
    \/ GetStats
    \/ Render
    \/ JoinAll

Spec == Init /\ [][Next]_vars

\* Every thread and main() keep being scheduled, and every child that was
\* launched eventually closes its output and exits.
Fairness ==
    /\ \A t \in Tests : WF_vars(PopenOk(t) \/ PopenFail(t) \/ MarkDone(t))
    /\ WF_vars(StartThread \/ LoopEnter \/ LoopExit \/ GetStats \/ Render \/ JoinAll)

FairSpec == Spec /\ Fairness

TypeOK ==
    /\ \A t \in Tests : tpc[t] \in {"new", "popen", "read", "ret"}
    /\ \A t \in Tests : child[t] \in {"none", "failed", "running", "exited"}
    /\ mpc \in {"start", "loop", "get", "render", "join", "fget", "frender", "exit"}
    /\ idx \in 1..Len(Order)
    /\ finals \in 0..1

\* ------------------------------------------------------------------------
\* Vocabulary of the properties
\* ------------------------------------------------------------------------

\* The metric fields of a dict, without the completion flag
MetricsOf(d) == [k \in (DOMAIN d) \cap MetricKeys |-> d[k]]

\* The test name of main()'s current report line
Cur == Order[idx]

\* main() has left the periodic report loop
PastLoop == mpc \in {"join", "fget", "frender", "exit"}

\* main() has printed the final results header
InFinal == mpc \in {"fget", "frender", "exit"}

\* main() holds a fetched dict and is about to print its line
Rendering == mpc \in {"render", "frender"}

EntryM1 == Parsed[LineM1].entry
EntryM2 == Parsed[LineM2].entry

\* ------------------------------------------------------------------------
\* C1
\* ------------------------------------------------------------------------

C2_DoneIsTerminal ==
    [][\A t \in Tests : Done(t) => Done(t)']_vars

\* One stream done after metrics, one done with none, one still writing
C2_Witness ==
    \E t, u, v \in Tests :
        /\ Done(t) /\ MetricsOf(results[t]) = EntryM2
        /\ Done(u) /\ MetricsOf(results[u]) = EmptyDict
        /\ tpc[v] = "read" /\ Truthy(results[v])

\* ------------------------------------------------------------------------
\* C3
\* ------------------------------------------------------------------------

\* C3: a stream is done only when its child was launched and has exited
\* and its thread has returned; the flag is set by a step of that stream's
\* own thread, the step in which it leaves the read loop with the child
\* reaped, and the entry is not written again afterwards.
C3_DoneOnlyAfterExit ==
    /\ [](\A t \in Tests : Done(t) => child[t] = "exited" /\ tpc[t] = "ret")
    /\ [][\A t \in Tests :
            /\ (~Done(t) /\ Done(t)')
                  => tpc[t] = "read" /\ tpc'[t] = "ret" /\ child'[t] = "exited"
            /\ Done(t) => results'[t] = results[t]]_vars

\* One stream done while another's child runs and a third never launched
C3_Witness ==
    \E t, u, v \in Tests :
        /\ Done(t) /\ child[t] = "exited"
        /\ child[u] = "running" /\ ~Done(u)
        /\ child[v] = "failed" /\ ~Done(v)

\* ------------------------------------------------------------------------
\* C4
\* ------------------------------------------------------------------------

\* C4: last write wins: the stored metrics of every stream are those of
\* the most recent line of that stream that parsed.
C4_LastWriteWins ==
    \A t \in Tests : MetricsOf(results[t]) = lastGood[t]

\* main() still holds the dict written for M1 while M2 has replaced it
C4_Witness ==
    /\ mpc = "render"
    /\ ~fresh
    /\ stats = EntryM1
    /\ results[Cur] = EntryM2
    /\ lastGood[Cur] = EntryM2

\* ------------------------------------------------------------------------
\* C5
\* ------------------------------------------------------------------------

\* C5 (an interval line being a line that parses): the final results are
\* printed at most once and only after all four threads have returned;
\* when all four children were launched and each had a line parsed, every
\* entry is then done and holds the metrics of its stream's last such line,
\* and that is the dict the final report fetches.
C5_FinalSummary ==
    /\ finals = (IF InFinal THEN 1 ELSE 0)
    /\ InFinal => \A t \in Tests : tpc[t] = "ret"
    /\ (InFinal /\ \A t \in Tests : child[t] # "failed" /\ Truthy(lastGood[t]))
          => /\ \A t \in Tests : Done(t) /\ MetricsOf(results[t]) = lastGood[t]
             /\ mpc = "frender" => stats = results[Cur] /\ Printed # NoDataAvailable

\* The final results are out; all four streams done, with M1 or M2 last
C5_Witness ==
    /\ mpc = "exit"
    /\ finals = 1
    /\ \A t \in Tests : Done(t) /\ Truthy(lastGood[t])
    /\ \E t, u \in Tests : results[t] = SetItem(EntryM1, "done", TRUE)
                        /\ results[u] = SetItem(EntryM2, "done", TRUE)

\* ------------------------------------------------------------------------
\* C6
\* ------------------------------------------------------------------------

\* C6: under fair scheduling, with every launched child eventually closing
\* its output and exiting, main() leaves the report loop and prints the
\* final results, whichever streams launch and whichever fail to.
C6_ReachesFinalSummary ==
    <>(mpc = "exit" /\ finals = 1)

\* The run is over with launched and failed streams side by side
C6_Witness ==
    /\ mpc = "exit"
    /\ \E t, u \in Tests : child[t] = "exited" /\ child[u] = "failed"

\* ------------------------------------------------------------------------
\* C7
\* ------------------------------------------------------------------------

\* C7: whatever the interleaving, the dict main() fetches for a stream is
\* the one stored by that stream's most recent update, and as long as it is
\* still the stored object it shows that update.
C7_ReadsLatestUpdate ==
    /\ [][(mpc \in {"get", "fget"} /\ mpc' \in {"render", "frender"})
             => MetricsOf(stats') = lastGood[Cur]]_vars
    /\ []((Rendering /\ fresh) => MetricsOf(stats) = lastGood[Cur])

\* An update landed between main()'s fetch and its print, others writing
C7_Witness ==
    /\ mpc = "render"
    /\ ~fresh
    /\ stats # results[Cur]
    /\ \E u \in Tests \ {Cur} : tpc[u] = "read" /\ Truthy(results[u])

\* ------------------------------------------------------------------------
\* C8
\* ------------------------------------------------------------------------

\* C8: a stream whose child failed to launch has returned with an empty
\* entry, for good; the failing step changes nothing of the other threads,
\* of results or of main(); and its report line is the no-data line.
C8_LaunchFailureLeavesNoData ==
    /\ [](\A t \in Tests : child[t] = "failed"
             => /\ results[t] = EmptyDict
                /\ lastGood[t] = EmptyDict
                /\ tpc[t] = "ret"
                /\ (Rendering /\ Cur = t) => Printed \in {NoDataYet, NoDataAvailable})
    /\ [][\A t \in Tests : (child[t] # "failed" /\ child'[t] = "failed")
             => /\ \A u \in Tests \ {t} : tpc'[u] = tpc[u] /\ child'[u] = child[u]
                /\ UNCHANGED <<results, mpc, idx, stats, fresh, finals>>]_vars

\* The final report prints no data for a failed launch, another is done
C8_Witness ==
    /\ mpc = "frender"
    /\ child[Cur] = "failed"
    /\ Printed = NoDataAvailable
    /\ \E u \in Tests : Done(u) /\ Truthy(lastGood[u])

\* ------------------------------------------------------------------------
\* C9
\* ------------------------------------------------------------------------

\* C9: reading a line outside the grammar, or one whose jitter does not
\* convert, changes no entry and leaves the thread in its read loop; the
\* loop is left only in the step that sees the child's end of output.
C9_BadLineIsDropped ==
    [][\A t \in Tests :
         /\ \A raw \in Lines :
               (Parsed[raw].kind # "ok" /\ ReadLine(t, raw))
                  => results' = results /\ tpc' = tpc
         /\ skipped'[t] => results'[t] = results[t] /\ tpc'[t] = "read"
         /\ (tpc[t] = "read" /\ tpc'[t] # "read") => child'[t] = "exited"]_vars

\* A stream dropped a line after M1 was stored: M1 stays, the loop goes on
C9_Witness ==
    \E t \in Tests :
        /\ skipped[t]
        /\ tpc[t] = "read"
        /\ results[t] = EntryM1

\* ------------------------------------------------------------------------
\* C10
\* ------------------------------------------------------------------------

\* C10 as stated: in every report, a stream for which no line was ever
\* parsed is printed as no data, done or not, and metric values are
\* printed only for a stream that had a line parsed.
C10_NoDataUnlessParsed ==
    (Rendering /\ ~Truthy(lastGood[Cur]))
        => Printed \in {NoDataYet, NoDataAvailable}

\* ------------------------------------------------------------------------
\* C11
\* ------------------------------------------------------------------------

\* C11: a step of a stream thread (an update or the completion marking)
\* leaves the entries of the other three streams as they were, an entry
\* changes only while its own thread is in its read loop, and no step of
\* main(), the report steps included, changes results.
C11_SingleWriterReadOnlyReaders ==
    [][/\ \A t \in Tests :
            ((\E raw \in Lines : ReadLine(t, raw)) \/ MarkDone(t))
               => \A u \in Tests \ {t} : results'[u] = results[u]
       /\ \A t \in Tests : results'[t] # results[t] => tpc[t] = "read"
       /\ (StartThread \/ LoopEnter \/ LoopExit \/ GetStats \/ Render \/ JoinAll)
             => results' = results
       /\ (mpc' # mpc \/ idx' # idx) => results' = results]_vars

\* The last line of the final report is being printed over four entries
\* that their threads left in four different states
C11_Witness ==
    /\ mpc = "frender"
    /\ idx = 4
    /\ results[Order[1]] = SetItem(EntryM1, "done", TRUE)
    /\ results[Order[2]] = SetItem(EntryM2, "done", TRUE)
    /\ results[Order[3]] = SetItem(EmptyDict, "done", TRUE)
    /\ results[Order[4]] = EmptyDict

\* ------------------------------------------------------------------------
\* C12
\* ------------------------------------------------------------------------

\* A stream has metrics stored
HasMetrics(t) == MetricKeys \subseteq DOMAIN results[t]

\* C12 as stated: every stored record has 0 <= lost <= total and a loss
\* percentage between 0 and 100, whatever grammar-matching lines the
\* child writes.
C12_DataModelInvariant ==
    \A t \in Tests : HasMetrics(t)
        => /\ results[t]["lost"] >= 0
           /\ results[t]["total"] >= results[t]["lost"]
           /\ results[t]["loss_percent"] \in 0..100

\* C12, amended: the three counts of a stored record are non-negative
\* integers, the very numbers written in the line it was parsed from (of
\* the lines here, 0/555 (0%) or 7/5 (140%)); nothing relates them to each
\* other or caps the percentage.
C12_CountsAreThoseOfTheLine ==
    \A t \in Tests : HasMetrics(t)
        => /\ results[t]["lost"] \in Nat
           /\ results[t]["total"] \in Nat
           /\ results[t]["loss_percent"] \in Nat
           /\ <<results[t]["lost"], results[t]["total"], results[t]["loss_percent"]>>
                 \in {<<0, 555, 0>>, <<7, 5, 140>>}

\* A record with lost > total and a loss above 100 is stored, and stays
\* stored once the stream is done
C12_Witness ==
    \E t \in Tests :
        /\ Done(t)
        /\ HasMetrics(t)
        /\ results[t]["lost"] = 7 /\ results[t]["total"] = 5
        /\ results[t]["loss_percent"] = 140

\* ------------------------------------------------------------------------
\* C13
\* ------------------------------------------------------------------------

\* C13: under fair scheduling, every stream whose child was launched is
\* eventually marked done, whether or not a line was ever parsed for it.
\* (The child's exit status is never read, so it is not part of the state.)
C13_LaunchedIsEventuallyDone ==
    \A t \in Tests : (child[t] = "running") ~> Done(t)

\* A launched stream is done without any metrics, next to one with metrics
C13_Witness ==
    \E t, u \in Tests :
        /\ child[t] = "exited" /\ results[t] = SetItem(EmptyDict, "done", TRUE)
        /\ child[u] = "exited" /\ Done(u) /\ HasMetrics(u)

\* ------------------------------------------------------------------------
\* C14
\* ------------------------------------------------------------------------

\* What Python prints for the records of LineM1 and LineM2
TextM1 == <<"I","n","t","e","r","v","a","l"," ","0",".","0","0","-","1","0",".","0","0"," ","s","e","c",","," ","J","i","t","t","e","r",":"," ","0",".","0","8","9"," ","m","s",","," ","L","o","s","t",":"," ","0"," ","/"," ","5","5","5",","," ","L","o","s","s","%",":"," ","0","%">>
TextM2 == <<"I","n","t","e","r","v","a","l"," ","1","0",".","0","0","-","2","0",".","0","0"," ","s","e","c",","," ","J","i","t","t","e","r",":"," ","0",".","1","2"," ","m","s",","," ","L","o","s","t",":"," ","7"," ","/"," ","5",","," ","L","o","s","s","%",":"," ","1","4","0","%">>

\* C14: whatever the interleaving of a stream's updates with main()'s
\* fetch and print, a report line that shows any metric shows the five
\* values of one single parsed line: it is the line of M1 or the line of
\* M2, never a mix of the two.
C14_NoTornReportLine ==
    (Rendering /\ (DOMAIN stats) \cap MetricKeys # {})
        => /\ MetricKeys \subseteq DOMAIN stats
           /\ Printed \in {TextM1, TextM2}
           /\ Printed = TextM1 <=> MetricsOf(stats) = EntryM1
           /\ Printed = TextM2 <=> MetricsOf(stats) = EntryM2

\* The second line of a periodic report shows M1, fetched before that
\* stream stored M2, while the first stream of the report is at M2
C14_Witness ==
    /\ mpc = "render"
    /\ idx = 2
    /\ ~fresh
    /\ Printed = TextM1
    /\ results[Cur] = EntryM2
    /\ MetricsOf(results[Order[1]]) = EntryM2

\* ------------------------------------------------------------------------
\* C15
\* ------------------------------------------------------------------------

\* C15: at every moment the keys of results are exactly the four test
\* names, and each entry is empty, or holds all five metric fields with or
\* without done, or holds done alone; done, where present, is True, and no
\* entry holds a proper subset of the metric fields.
C15_ShapeInvariant ==
    /\ DOMAIN results = Tests
    /\ \A t \in Tests :
          /\ DOMAIN results[t] \in {{}, MetricKeys, MetricKeys \cup {"done"}, {"done"}}
          /\ "done" \in DOMAIN results[t] => results[t]["done"] = TRUE

\* During a periodic report the four entries show the four shapes at once
C15_Witness ==
    /\ mpc \in {"get", "render"}
    /\ \E a, b, c, d \in Tests :
          /\ DOMAIN results[a] = {}
          /\ DOMAIN results[b] = MetricKeys /\ tpc[b] = "read"
          /\ DOMAIN results[c] = MetricKeys \cup {"done"}
          /\ DOMAIN results[d] = {"done"}

====
